---- MODULE Spec2Model ----
(***************************************************************************)
(* Model of clp_package_utils/scripts/native/compress.py: one client that  *)
(* submits a compression job to the "cjobs" collection, polls the job      *)
(* document once a second and, on KeyboardInterrupt, tries to cancel the   *)
(* job with one conditional update.  The worker and the store's retention  *)
(* are the environment: they change or delete the document between the     *)
(* client's store operations.                                              *)
(***************************************************************************)
EXTENDS Integers, Sequences, FiniteSets, TLC

\* Largest value of logs_uncompressed_size / logs_compressed_size the worker writes.
MaxSize == 2
\* Largest end_timestamp - begin_timestamp (milliseconds) the worker writes.
MaxRuntime == 1

(***************************************************************************)
(* JobStatus (compression_job_handler.common) and its string encoding.     *)
(***************************************************************************)
JobStatus == {"PENDING", "RUNNING", "DONE", "FAILED", "CANCELLING", "CANCELLED"}

\* What from_str yields for a string that names no member: a raised KeyError.
KeyError == "KeyError"

\* str(JobStatus.X): the lower-case member name stored in the document.
to_str(s) ==
    CASE s = "PENDING" -> "pending"
      [] s = "RUNNING" -> "running"
      [] s = "DONE" -> "done"
      [] s = "FAILED" -> "failed"
      [] s = "CANCELLING" -> "cancelling"
      [] s = "CANCELLED" -> "cancelled"

\* JobStatus.from_str(label): the member named by label, KeyError otherwise.
from_str(label) ==
    IF \E s \in JobStatus : to_str(s) = label
    THEN CHOOSE s \in JobStatus : to_str(s) = label
    ELSE KeyError

\* A status string of a worker that speaks another protocol version.
UnknownStatusStr == "paused"

StatusStrings == {to_str(s) : s \in JobStatus} \cup {UnknownStatusStr}

(***************************************************************************)
(* The command line after argparse: the number of PATH arguments, whether  *)
(* --input-list was given, and each --target-* option (<<>> is None).      *)
(***************************************************************************)
TargetSizeAttributes ==
    {"target_archive_size", "target_archive_dictionaries_data_size",
     "target_segment_size", "target_encoded_file_size", "target_num_archives"}

TargetValues == {<<>>} \cup {<<v>> : v \in {-1, 0, 1}}

ArgsSpace ==
    [paths : 0..1, input_list : BOOLEAN,
     targets : [TargetSizeAttributes -> TargetValues]]

NoArgs ==
    [paths |-> 0, input_list |-> FALSE,
     targets |-> [o \in TargetSizeAttributes |-> <<>>]]

ErrNoPaths == "No paths specified."
ErrBothPaths == "Paths cannot be specified on the command line AND through a file."
ErrTarget == "must be greater than 0."
ErrConfig == "ValidationError"

\* A validation that rejects negative target sizes only.
ValidateArgsNegativeOnly(a) ==
    IF ~a.input_list /\ a.paths = 0 THEN ErrNoPaths
    ELSE IF a.paths > 0 /\ a.input_list THEN ErrBothPaths
    ELSE IF \E o \in TargetSizeAttributes :
              a.targets[o] # <<>> /\ a.targets[o][1] < 0 THEN ErrTarget
    ELSE "ok"

\* The checks before the configuration is loaded; each failure is args_parser.error.
ValidateArgs(a) ==
    IF ~a.input_list /\ a.paths = 0 THEN ErrNoPaths
    ELSE IF a.paths > 0 /\ a.input_list THEN ErrBothPaths
    ELSE IF \E o \in TargetSizeAttributes :
              a.targets[o] # <<>> /\ a.targets[o][1] <= 0 THEN ErrTarget
    ELSE "ok"

(***************************************************************************)
(* The job document.  A timestamp field is <<>> while absent, <<t>> once   *)
(* the worker has set it.  present = FALSE is "no such document".          *)
(***************************************************************************)
NoDoc ==
    [present |-> FALSE, status |-> "", logs_uncompressed_size |-> 0,
     logs_compressed_size |-> 0, errors |-> FALSE,
     begin_timestamp |-> <<>>, end_timestamp |-> <<>>]

\* The entry main() builds for insert_one.
Entry ==
    [present |-> TRUE, status |-> "pending", logs_uncompressed_size |-> 0,
     logs_compressed_size |-> 0, errors |-> FALSE,
     begin_timestamp |-> <<>>, end_timestamp |-> <<>>]

VARIABLES
    args,                   \* the parsed command line (NoArgs once the entry is built)
    store,                  \* the job document in jobs_collection
    pc,                     \* the statement main() executes next
    job_id,                 \* <<>> is None, <<1>> the inserted id
    doc,                    \* the local of that name: what the last find_one returned
    reply,                  \* what a find_one_and_update that took effect is about to
                            \* return: "" (no call in flight), "none", "doc"
    result,                 \* the local of that name: "unset", "none" (None), "doc"
    last_uncompressed_size, \* the local of that name
    exit,                   \* <<>> while running, <<code>> once the process ended
    how,                    \* what main() is about to end on, or ended on ("": nothing)
    out,                    \* log lines emitted by the last client step
    op,                     \* label of the last step ("none": no client step)
    speed,                  \* <<>>, or the speed of the finish report as <<bytes, seconds>>
    read_size,              \* history: logs_uncompressed_size read at the latest monitoring poll
    prev_size,              \* history: logs_uncompressed_size read at the poll before it
    max_size,               \* history: largest logs_uncompressed_size read before the latest poll
    observed,               \* history: what the latest poll found (see Observation)
    diagnostics,            \* history: number of disappeared/unknown-status lines logged
    client_writes,          \* history: <<old, new>> of every status write of the client
    interrupts,             \* history: number of KeyboardInterrupts delivered
    interrupt_status,       \* history: the document's status at the first interrupt
    creates,                \* history: number of insert_one calls that took effect
    updates                 \* history: number of find_one_and_update calls

locals == <<job_id, doc, reply, result, last_uncompressed_size, speed>>
pollVars == <<read_size, prev_size, max_size, observed>>
signalVars == <<interrupts, interrupt_status>>
historyVars == <<read_size, prev_size, max_size, observed, diagnostics, client_writes,
                 interrupts, interrupt_status, creates, updates>>
vars == <<args, store, pc, job_id, doc, reply, result, last_uncompressed_size, exit, how, out,
          op, speed, read_size, prev_size, max_size, observed, diagnostics,
          client_writes, interrupts, interrupt_status, creates, updates>>

(***************************************************************************)
(* Store operations (pymongo Collection), each atomic on the document.     *)
(***************************************************************************)
insert_one(st, entry) == entry

\* find_one({"_id": job_id}, projection of the six fields): the document, or None
\* (present = FALSE).
find_one(st) == st

\* find_one({"_id": job_id}, projection={"status": 1}): the status alone.
find_one_status(st) ==
    IF st.present THEN [NoDoc EXCEPT !.present = TRUE, !.status = st.status] ELSE NoDoc

\* A find_one_and_update whose filter forgets the status: matches any document.
find_one_and_update_any(st, expected, new) ==
    IF st.present
    THEN [store |-> [st EXCEPT !.status = new], matched |-> TRUE]
    ELSE [store |-> st, matched |-> FALSE]

\* A find_one_and_update whose filter also accepts a job that is running.
find_one_and_update_started(st, expected, new) ==
    IF st.present /\ st.status \in {expected, "running"}
    THEN [store |-> [st EXCEPT !.status = new], matched |-> TRUE]
    ELSE [store |-> st, matched |-> FALSE]

\* A find_one_and_update whose update also stamps end_timestamp.
find_one_and_update_stamp(st, expected, new) ==
    IF st.present /\ st.status = expected
    THEN [store |-> [st EXCEPT !.status = new, !.end_timestamp = <<0>>],
          matched |-> TRUE]
    ELSE [store |-> st, matched |-> FALSE]

\* find_one_and_update(filter={"_id", "status": expected}, {"$set": {"status": new}}):
\* matched is "result is not None".
find_one_and_update(st, expected, new) ==
    IF st.present /\ st.status = expected
    THEN [store |-> [st EXCEPT !.status = new], matched |-> TRUE]
    ELSE [store |-> st, matched |-> FALSE]

(***************************************************************************)
(* Log lines.                                                              *)
(***************************************************************************)
LineSubmitted == "Compression job submitted."
LineWaiting == "Waiting for updates..."
LineDisappeared == "Compression job disappeared."
LineProgress == "Compressed ... into ... (%)."
LineUnknown == "Unknown status"
LineFailed == "Compression failed."
LineCancelled == "Compression cancelled."
LineFinished == "Compression finished. Runtime ... Speed ..."
LineErrors == "Errors occurred during compression."
LineTrying == "Trying to cancel compression job."
LineStarted == "Compression job already started and will continue to run in the background."
LineCancelledJobs == "Cancelled compression jobs."

(***************************************************************************)
(* The outcome of one step of main(): where it goes next, the exit status  *)
(* if the step ended the process, what the run is ending on, the lines it  *)
(* logged and the speed it computed.                                       *)
(***************************************************************************)
\* The step ended the process with this status.
Ended(code, reason, lines) ==
    [pc |-> "done", exit |-> <<code>>, how |-> reason, out |-> lines, speed |-> <<>>]

\* The step settled what the run ends on and moved on to the statement at.
Ending(at, reason, lines) ==
    [pc |-> at, exit |-> <<>>, how |-> reason, out |-> lines, speed |-> <<>>]

\* The step settled nothing: main() goes on at the statement at.
Continue(at, lines) == Ending(at, "", lines)

(***************************************************************************)
(* The monitoring loop body after find_one.                                *)
(***************************************************************************)
\* A progress test that also reports an unchanged size.
ProgressIncreasedOrEqual(d, last) == last <= d.logs_uncompressed_size

\* A progress test for "changed" instead of "increased".
ProgressChanged(d, last) == last # d.logs_uncompressed_size

\* if last_uncompressed_size < uncompressed_size
ProgressIncreased(d, last) == last < d.logs_uncompressed_size

\* if doc is None: error line, then return -1; else the progress report, then the
\* assignment of line 193; else straight on to the status.
ReportProgress(d, last) ==
    IF ~d.present
    THEN Ending("return_error", "disappeared", <<LineDisappeared>>)
    ELSE IF ProgressIncreased(d, last)
         THEN Continue("assign_last", <<LineProgress>>)
         ELSE Continue("status", <<>>)

\* A loop body that never stores the size it reported.
UpdatedLastStale(d, last) == last

\* last_uncompressed_size = uncompressed_size, inside the progress branch.
UpdatedLast(d, last) ==
    IF ProgressIncreased(d, last) THEN d.logs_uncompressed_size ELSE last

\* runtime = runtime_delta / 1000: seconds, as the fraction <<numerator, denominator>>.
RuntimeSeconds(runtime_delta) == <<runtime_delta, 1000>>

\* speed = last_uncompressed_size / runtime: bytes per second, as a fraction.
Speed(d, last, runtime) == <<last * runtime[2], runtime[1]>>

\* A DONE branch that reports and then polls again (no break).
HandleDoneNoBreak(d, last) == Continue("sleep", <<>>)

\* The DONE branch up to the report: runtime and speed (lines 210-219).  runtime
\* is 0 exactly when runtime_delta is 0, and then last_uncompressed_size / runtime
\* raises ZeroDivisionError, which nothing catches (exit status 1).
HandleDone(d, last) ==
    LET runtime_delta == d.end_timestamp[1] - d.begin_timestamp[1]
    IN  IF runtime_delta = 0
        THEN Ended(1, "DONE", <<>>)
        ELSE [Ending("log_finished", "DONE", <<>>)
                EXCEPT !.speed = Speed(d, last, RuntimeSeconds(runtime_delta))]

\* try: from_str / except KeyError, then the three terminal branches.
HandleStatus(d, last) ==
    LET job_status == from_str(d.status)
    IN  CASE job_status = KeyError ->
               Ending("return_error", "unknown", <<LineUnknown>>)
          [] job_status = "FAILED" -> Ending("break", "FAILED", <<LineFailed>>)
          [] job_status = "CANCELLED" -> Ending("break", "CANCELLED", <<LineCancelled>>)
          [] job_status = "DONE" -> HandleDone(d, last)
          [] OTHER -> Continue("sleep", <<>>)

(***************************************************************************)
(* The cancellation wait loop body after find_one.  No try/except          *)
(* surrounds from_str here: a KeyError leaves main() uncaught, the         *)
(* interpreter prints a traceback and exits with status 1.                 *)
(***************************************************************************)
\* A cancellation wait that leaves the loop on DONE only.
CancelWaitIterationDoneOnly(d) ==
    IF ~d.present
    THEN Ending("handler_return_error", "disappeared", <<LineDisappeared>>)
    ELSE
      LET job_status == from_str(d.status)
      IN  CASE job_status = KeyError -> Ended(1, "unknown", <<>>)
            [] job_status = "DONE" -> Ending("return", job_status, <<LineCancelledJobs>>)
            [] OTHER -> Continue("cancel_sleep", <<>>)

CancelWaitIteration(d) ==
    IF ~d.present
    THEN Ending("handler_return_error", "disappeared", <<LineDisappeared>>)
    ELSE
      LET job_status == from_str(d.status)
      IN  CASE job_status = KeyError -> Ended(1, "unknown", <<>>)
            [] job_status \in {"CANCELLED", "DONE"} ->
                 Ending("return", job_status, <<LineCancelledJobs>>)
            [] OTHER -> Continue("cancel_sleep", <<>>)

\* if result is None: the error line, then return 0; else the wait loop.
CancelOutcome(res) ==
    IF res = "none"
    THEN Ending("return", "already_started", <<LineStarted>>)
    ELSE Continue("cancel_sleep", <<>>)

\* What a poll found, as the claims name it.
Observation(d) ==
    IF ~d.present THEN "disappeared"
    ELSE LET job_status == from_str(d.status)
         IN  IF job_status = KeyError THEN "unknown"
             ELSE IF job_status \in {"DONE", "FAILED", "CANCELLED"} THEN job_status
             ELSE ""

DiagnosticLines == {LineDisappeared, LineUnknown}

\* The number of diagnostic lines among lines.
Diagnostics(lines) == Cardinality({i \in 1..Len(lines) : lines[i] \in DiagnosticLines})

Max(a, b) == IF a > b THEN a ELSE b

\* Where a KeyboardInterrupt is raised outside the try statement of line 153.
BeforeTry == {"args", "usage_exit", "config", "config_return", "prepare"}
AfterTry == {"return"}
\* Inside the try block (lines 154-229).
InTry == {"submit", "inserted", "log_submitted", "log_waiting", "init_last", "sleep",
          "polled", "assign_last", "status", "log_finished", "log_errors", "break",
          "return_error"}
\* Inside the except block (lines 231-255).
InExcept == {"except", "handler", "update_sent", "updated", "cancel_sleep",
             "cancel_polled", "handler_return_error"}

(***************************************************************************)
(* Initial state: main() has parsed some command line.                     *)
(***************************************************************************)
Init ==
    /\ args \in ArgsSpace
    /\ store = NoDoc
    /\ pc = "args"
    /\ job_id = <<>>
    /\ doc = NoDoc
    /\ reply = ""
    /\ result = "unset"
    /\ last_uncompressed_size = 0
    /\ exit = <<>>
    /\ how = ""
    /\ out = <<>>
    /\ op = "none"
    /\ speed = <<>>
    /\ read_size = 0
    /\ prev_size = 0
    /\ max_size = 0
    /\ observed = ""
    /\ diagnostics = 0
    /\ client_writes = <<>>
    /\ interrupts = 0
    /\ interrupt_status = "none"
    /\ creates = 0
    /\ updates = 0

(***************************************************************************)
(* Client steps, one per statement (or run of statements with no call in   *)
(* between) of main().  A KeyboardInterrupt can be raised between any two. *)
(***************************************************************************)
\* What every client step does with the control variables and the log.
Step(label, r) ==
    /\ op' = label
    /\ pc' = r.pc
    /\ exit' = r.exit
    /\ how' = r.how
    /\ out' = r.out
    /\ diagnostics' = diagnostics + Diagnostics(r.out)

\* The validation of the parsed arguments; a failure is args_parser.error, which
\* prints the message and then exits.
ParseArgs ==
    /\ pc = "args"
    /\ LET v == ValidateArgs(args)
       IN  IF v = "ok"
           THEN Step("parse", Continue("config", <<>>))
           ELSE Step("parse", Ending("usage_exit", "usage", <<v>>))
    /\ UNCHANGED <<args, store, locals, pollVars, client_writes, signalVars, creates,
                   updates>>

\* args_parser.error ends in sys.exit(2).
UsageExit ==
    /\ pc = "usage_exit"
    /\ Step("exit", Ended(2, how, <<>>))
    /\ UNCHANGED <<args, store, locals, pollVars, client_writes, signalVars, creates,
                   updates>>

\* CLPConfig.parse_obj accepts the configuration file.
LoadConfig ==
    /\ pc = "config"
    /\ Step("config", Continue("prepare", <<>>))
    /\ UNCHANGED <<args, store, locals, pollVars, client_writes, signalVars, creates,
                   updates>>

\* CLPConfig.parse_obj raises ValidationError: logger.error(err).
LoadConfigInvalid ==
    /\ pc = "config"
    /\ Step("config", Ending("config_return", "config", <<ErrConfig>>))
    /\ UNCHANGED <<args, store, locals, pollVars, client_writes, signalVars, creates,
                   updates>>

\* return -1 after the ValidationError.
ConfigReturn ==
    /\ pc = "config_return"
    /\ Step("exit", Ended(-1, how, <<>>))
    /\ UNCHANGED <<args, store, locals, pollVars, client_writes, signalVars, creates,
                   updates>>

\* The input paths (read from the list file with --input-list), output_config and
\* the entry are built, the collection is looked up, job_id = None, try is entered.
PrepareEntry ==
    /\ pc = "prepare"
    /\ args' = NoArgs
    /\ Step("prepare", Continue("submit", <<>>))
    /\ UNCHANGED <<store, locals, pollVars, client_writes, signalVars, creates, updates>>

\* open(log_list_path) raises (no such file): nothing catches it, exit status 1.
PrepareEntryFails ==
    /\ pc = "prepare"
    /\ args.input_list
    /\ Step("prepare", Ended(1, "uncaught", <<>>))
    /\ UNCHANGED <<args, store, locals, pollVars, client_writes, signalVars, creates,
                   updates>>

\* insert_one(entry) takes effect in the store; the call has not returned yet.
InsertOne ==
    /\ pc = "submit"
    /\ store' = insert_one(store, Entry)
    /\ creates' = creates + 1
    /\ Step("insert", Continue("inserted", <<>>))
    /\ UNCHANGED <<args, locals, pollVars, client_writes, signalVars, updates>>

\* An insert_one whose return is taken for a failure and the call repeated.
InsertReturnRetry ==
    /\ pc = "inserted"
    /\ Step("insert_return", Continue("submit", <<>>))
    /\ UNCHANGED <<args, store, locals, pollVars, client_writes, signalVars, creates,
                   updates>>

\* insert_one returns: job_id = insert_result.inserted_id.
InsertReturn ==
    /\ pc = "inserted"
    /\ job_id' = <<1>>
    /\ Step("insert_return", Continue("log_submitted", <<>>))
    /\ UNCHANGED <<args, store, doc, reply, result, last_uncompressed_size, speed,
                   pollVars,
                   client_writes, signalVars, creates, updates>>

\* logger.info("Compression job_... submitted.")
LogSubmitted ==
    /\ pc = "log_submitted"
    /\ Step("log", Continue("log_waiting", <<LineSubmitted>>))
    /\ UNCHANGED <<args, store, locals, pollVars, client_writes, signalVars, creates,
                   updates>>

\* logger.info("Waiting for updates...")
LogWaiting ==
    /\ pc = "log_waiting"
    /\ Step("log", Continue("init_last", <<LineWaiting>>))
    /\ UNCHANGED <<args, store, locals, pollVars, client_writes, signalVars, creates,
                   updates>>

\* last_uncompressed_size = 0; while True.
InitLast ==
    /\ pc = "init_last"
    /\ last_uncompressed_size' = 0
    /\ Step("assign", Continue("sleep", <<>>))
    /\ UNCHANGED <<args, store, job_id, doc, reply, result, speed, pollVars,
                   client_writes, signalVars, creates, updates>>

\* time.sleep(1); doc = find_one(...).
MonitorPoll ==
    /\ pc = "sleep"
    /\ doc' = find_one(store)
    /\ observed' = Observation(doc')
    /\ IF doc'.present
       THEN /\ read_size' = doc'.logs_uncompressed_size
            /\ prev_size' = read_size
            /\ max_size' = Max(max_size, read_size)
       ELSE UNCHANGED <<read_size, prev_size, max_size>>
    /\ Step("poll", Continue("polled", <<>>))
    /\ UNCHANGED <<args, store, job_id, reply, result, last_uncompressed_size, speed,
                   client_writes, signalVars, creates, updates>>

\* if doc is None: ...; if last_uncompressed_size < uncompressed_size: logger.info(...)
MonitorReport ==
    /\ pc = "polled"
    /\ Step("report", ReportProgress(doc, last_uncompressed_size))
    /\ UNCHANGED <<args, store, locals, pollVars, client_writes, signalVars, creates,
                   updates>>

\* last_uncompressed_size = uncompressed_size
AssignLast ==
    /\ pc = "assign_last"
    /\ last_uncompressed_size' = UpdatedLast(doc, last_uncompressed_size)
    /\ Step("assign", Continue("status", <<>>))
    /\ UNCHANGED <<args, store, job_id, doc, reply, result, speed, pollVars, client_writes,
                   signalVars, creates, updates>>

\* The status handling of lines 196-219.  A status that ends nothing closes the
\* iteration: doc is rebound by the next find_one before it is read again.
MonitorStatus ==
    /\ pc = "status"
    /\ LET r == HandleStatus(doc, last_uncompressed_size)
       IN  /\ Step("status", r)
           /\ speed' = r.speed
           /\ doc' = IF r.pc = "sleep" THEN NoDoc ELSE doc
    /\ UNCHANGED <<args, store, job_id, reply, result, last_uncompressed_size, pollVars,
                   client_writes, signalVars, creates, updates>>

\* logger.info("Compression finished. Runtime: ... Speed: ...")
LogFinished ==
    /\ pc = "log_finished"
    /\ Step("log", Ending(IF doc.errors THEN "log_errors" ELSE "break", how,
                          <<LineFinished>>))
    /\ UNCHANGED <<args, store, locals, pollVars, client_writes, signalVars, creates,
                   updates>>

\* if doc["errors"]: logger.error("Errors occurred during compression.")
LogErrors ==
    /\ pc = "log_errors"
    /\ Step("log", Ending("break", how, <<LineErrors>>))
    /\ UNCHANGED <<args, store, locals, pollVars, client_writes, signalVars, creates,
                   updates>>

\* break: the loop and the try statement are left, line 257 is next.
Break ==
    /\ pc = "break"
    /\ Step("break", Ending("return", how, <<>>))
    /\ UNCHANGED <<args, store, locals, pollVars, client_writes, signalVars, creates,
                   updates>>

\* return -1 (lines 180, 201 and 250).
ReturnError ==
    /\ pc \in {"return_error", "handler_return_error"}
    /\ Step("exit", Ended(-1, how, <<>>))
    /\ UNCHANGED <<args, store, locals, pollVars, client_writes, signalVars, creates,
                   updates>>

\* return 0 (line 257).
Return ==
    /\ pc = "return"
    /\ Step("exit", Ended(0, how, <<>>))
    /\ UNCHANGED <<args, store, locals, pollVars, client_writes, signalVars, creates,
                   updates>>

(***************************************************************************)
(* KeyboardInterrupt.                                                      *)
(***************************************************************************)
\* Raised outside the try statement: nothing catches it, the interpreter ends the
\* process (status 130) and nothing is logged.
InterruptOutsideTry ==
    /\ pc \in BeforeTry \cup AfterTry
    /\ interrupts' = interrupts + 1
    /\ interrupt_status' = IF interrupts = 0 THEN store.status ELSE interrupt_status
    /\ Step("interrupt", Ended(130, "interrupted", <<>>))
    /\ UNCHANGED <<args, store, locals, pollVars, client_writes, creates, updates>>

\* Raised inside the try block: whatever the block was about to do, return and
\* break included, is abandoned and control moves to except KeyboardInterrupt.
InterruptInTry ==
    /\ pc \in InTry
    /\ interrupts' = interrupts + 1
    /\ interrupt_status' = IF interrupts = 0 THEN store.status ELSE interrupt_status
    /\ Step("interrupt", Continue("except", <<>>))
    /\ UNCHANGED <<args, store, locals, pollVars, client_writes, creates, updates>>

\* Raised inside the except block: nothing catches it, main() is left by the
\* exception and the interpreter ends the process (status 130).
InterruptHandler ==
    /\ pc \in InExcept
    /\ interrupts' = interrupts + 1
    /\ interrupt_status' = IF interrupts = 0 THEN store.status ELSE interrupt_status
    /\ Step("interrupt", Ended(130, "interrupted", <<>>))
    /\ UNCHANGED <<args, store, locals, pollVars, client_writes, creates, updates>>

(***************************************************************************)
(* The except block.                                                       *)
(***************************************************************************)
\* logger.info("Trying to cancel compression job.")
LogTrying ==
    /\ pc = "except"
    /\ Step("log", Continue("handler", <<LineTrying>>))
    /\ UNCHANGED <<args, store, locals, pollVars, client_writes, signalVars, creates,
                   updates>>

\* if job_id is not None: false, so the except block ends and line 257 is next.
SkipCancel ==
    /\ pc = "handler"
    /\ job_id = <<>>
    /\ Step("skip", Ending("return", "no_job_id", <<>>))
    /\ UNCHANGED <<args, store, locals, pollVars, client_writes, signalVars, creates,
                   updates>>

\* find_one_and_update(filter status = PENDING, $set status = CANCELLING) takes
\* effect in the store; the call has not returned yet.
CancelUpdate ==
    /\ pc = "handler"
    /\ job_id # <<>>
    /\ LET r == find_one_and_update(store, to_str("PENDING"), to_str("CANCELLING"))
       IN  /\ store' = r.store
           /\ reply' = IF r.matched THEN "doc" ELSE "none"
           /\ client_writes' =
                IF r.store # store
                THEN Append(client_writes, <<store.status, r.store.status>>)
                ELSE client_writes
    /\ updates' = updates + 1
    /\ Step("update", Continue("update_sent", <<>>))
    /\ UNCHANGED <<args, job_id, doc, result, last_uncompressed_size, speed, pollVars,
                   signalVars, creates>>

\* find_one_and_update returns: result = ...
UpdateReturn ==
    /\ pc = "update_sent"
    /\ result' = reply
    /\ reply' = ""
    /\ Step("update_return", Continue("updated", <<>>))
    /\ UNCHANGED <<args, store, job_id, doc, last_uncompressed_size, speed, pollVars,
                   client_writes, signalVars, creates, updates>>

\* if result is None: logger.error(...) else: the wait loop.
CancelBranch ==
    /\ pc = "updated"
    /\ Step("branch", CancelOutcome(result))
    /\ UNCHANGED <<args, store, locals, pollVars, client_writes, signalVars, creates,
                   updates>>

\* time.sleep(1); doc = find_one(..., projection={"status": 1}).
CancelPoll ==
    /\ pc = "cancel_sleep"
    /\ doc' = find_one_status(store)
    /\ observed' = Observation(doc')
    /\ Step("cancel_poll", Continue("cancel_polled", <<>>))
    /\ UNCHANGED <<args, store, job_id, reply, result, last_uncompressed_size, speed,
                   read_size, prev_size, max_size, client_writes, signalVars, creates,
                   updates>>

\* The rest of the wait loop body (lines 248-255).
CancelStatus ==
    /\ pc = "cancel_polled"
    /\ LET r == CancelWaitIteration(doc)
       IN  /\ Step("cancel_status", r)
           /\ doc' = IF r.pc = "cancel_sleep" THEN NoDoc ELSE doc
    /\ UNCHANGED <<args, store, job_id, reply, result, last_uncompressed_size, speed, pollVars,
                   client_writes, signalVars, creates, updates>>

(***************************************************************************)
(* Environment: the worker (status state machine, progress counters) and   *)
(* the store's retention.  An environment step is no client step.          *)
(***************************************************************************)
EnvFrame ==
    /\ op' = "none"
    /\ out' = <<>>
    /\ UNCHANGED <<args, pc, exit, how, locals>>
    /\ UNCHANGED historyVars

\* PENDING -> RUNNING, begin_timestamp is set.
WorkerStart ==
    /\ store.present /\ store.status = "pending"
    /\ store' = [store EXCEPT !.status = "running", !.begin_timestamp = <<1>>]
    /\ EnvFrame

\* The counters change while RUNNING; a read may return a lower value again.
WorkerProgress ==
    /\ store.present /\ store.status = "running"
    /\ \E u \in 0..MaxSize, c \in 0..MaxSize :
         /\ <<u, c>> # <<store.logs_uncompressed_size, store.logs_compressed_size>>
         /\ store' = [store EXCEPT !.logs_uncompressed_size = u,
                                   !.logs_compressed_size = c]
    /\ EnvFrame

\* RUNNING -> DONE | FAILED, end_timestamp >= begin_timestamp is set.
WorkerFinish ==
    /\ store.present /\ store.status = "running"
    /\ \E s \in {"done", "failed"}, d \in 0..MaxRuntime, e \in BOOLEAN :
         store' = [store EXCEPT !.status = s,
                                !.end_timestamp = <<store.begin_timestamp[1] + d>>,
                                !.errors = e]
    /\ EnvFrame

\* CANCELLING -> CANCELLED: the worker acknowledges the cancellation.
WorkerAck ==
    /\ store.present /\ store.status = "cancelling"
    /\ store' = [store EXCEPT !.status = "cancelled"]
    /\ EnvFrame

\* The worker had taken the job before it saw CANCELLING and finishes it.
WorkerFinishCancelling ==
    /\ store.present /\ store.status = "cancelling"
    /\ \E s \in {"done", "failed"}, d \in 0..MaxRuntime :
         store' = [store EXCEPT !.status = s,
                                !.begin_timestamp = <<1>>,
                                !.end_timestamp = <<1 + d>>]
    /\ EnvFrame

\* Protocol mismatch: the worker writes a status string the client does not know.
WorkerUnknownStatus ==
    /\ store.present /\ store.status \in {"pending", "running", "cancelling"}
    /\ store' = [store EXCEPT !.status = UnknownStatusStr]
    /\ EnvFrame

\* The document is removed from the collection.
DeleteRecord ==
    /\ store.present
    /\ store' = NoDoc
    /\ EnvFrame

ClientStep ==
    \/ ParseArgs
    \/ UsageExit
    \/ LoadConfig
    \/ LoadConfigInvalid
    \/ ConfigReturn
    \/ PrepareEntry
    \/ PrepareEntryFails
    \/ InsertOne
    \/ InsertReturn
    \/ LogSubmitted
    \/ LogWaiting
    \/ InitLast
    \/ MonitorPoll
    \/ MonitorReport
    \/ AssignLast
    \/ MonitorStatus
    \/ LogFinished
    \/ LogErrors
    \/ Break
    \/ ReturnError
    \/ Return
    \/ LogTrying
    \/ SkipCancel
    \/ CancelUpdate
    \/ UpdateReturn
    \/ CancelBranch
    \/ CancelPoll
    \/ CancelStatus

Interrupt ==
    \/ InterruptOutsideTry
    \/ InterruptInTry
    \/ InterruptHandler

Worker ==
    \/ WorkerStart
    \/ WorkerProgress
    \/ WorkerFinish
    \/ WorkerAck
    \/ WorkerFinishCancelling
    \/ WorkerUnknownStatus

Next ==
    \/ ClientStep
    \/ Interrupt
    \/ Worker
    \/ DeleteRecord

Spec == Init /\ [][Next]_vars

\* The client process keeps running (sleep returns, store calls return) and the
\* worker acknowledges a cancellation it has been asked for.
FairSpec ==
    /\ Init /\ [][Next]_vars
    /\ WF_vars(ClientStep)
    /\ WF_vars(WorkerAck)

TypeOK ==
    /\ args \in ArgsSpace
    /\ pc \in BeforeTry \cup InTry \cup InExcept \cup AfterTry \cup {"done"}
    /\ reply \in {"", "none", "doc"}
    /\ result \in {"unset", "none", "doc"}
    /\ creates \in 0..1
    /\ updates \in 0..1
    /\ diagnostics \in 0..1
    /\ store.status \in StatusStrings \cup {""}
    /\ doc.status \in StatusStrings \cup {""}
    /\ last_uncompressed_size \in 0..MaxSize
    /\ read_size \in 0..MaxSize
    /\ prev_size \in 0..MaxSize
    /\ max_size \in 0..MaxSize
    /\ Len(exit) <= 1
    /\ interrupts \in 0..2
    /\ interrupt_status \in StatusStrings \cup {"", "none"}
    /\ observed \in {"", "disappeared", "unknown", "DONE", "FAILED", "CANCELLED"}

(***************************************************************************)
(* Properties.                                                             *)
(***************************************************************************)
Range(q) == {q[i] : i \in 1..Len(q)}

IsPoll(o) == o \in {"poll", "cancel_poll"}

Terminal == {"DONE", "FAILED", "CANCELLED"}

\* C1: the conditional update changes the document iff its status is PENDING when
\* the update is applied, and then only to CANCELLING; on any other status (or no
\* document) the update changes nothing and is to return None; no other client step
\* changes an existing document.
C1_CancelIffPending ==
    [][/\ op' = "update" =>
            /\ (store' # store) <=> (store.present /\ store.status = "pending")
            /\ (store.present /\ store.status = "pending") =>
                  (store' = [store EXCEPT !.status = "cancelling"] /\ reply' = "doc")
            /\ ~(store.present /\ store.status = "pending") =>
                  (store' = store /\ reply' = "none")
       /\ (op' # "none" /\ store.present /\ store.status # "pending") => store' = store
      ]_vars

\* The update was applied to a job the worker had already started: no match.
C1_Witness ==
    /\ op = "update" /\ reply = "none"
    /\ store.present /\ store.status = "running"
    /\ interrupt_status = "pending"

\* C2: over a whole run the client writes the status of the existing document at
\* most once, that write is PENDING -> CANCELLING, and every change a client step
\* makes to the status of an existing document is such a write.
C2_ClientWritesOnce ==
    /\ [](/\ Len(client_writes) <= 1
          /\ \A i \in 1..Len(client_writes) :
                client_writes[i] = <<"pending", "cancelling">>)
    /\ [][(op' # "none" /\ store.present /\ store'.status # store.status)
            => client_writes' = Append(client_writes, <<store.status, store'.status>>)
      ]_vars

\* The one write happened and a second interruption followed it.
C2_Witness ==
    /\ Len(client_writes) = 1 /\ interrupts = 2 /\ pc = "done"

\* C3 as stated, on runs with one interruption, delivered once job_id is known,
\* and a document that is never deleted: a client interrupted while the status
\* was PENDING has made the document CANCELLING by the time it ends.
C3_InterruptedWhilePendingCancels ==
    (/\ pc = "done" /\ job_id # <<>>
     /\ interrupts = 1 /\ interrupt_status = "pending" /\ store.present)
        => client_writes = << <<"pending", "cancelling">> >>

\* C3 amended: an update applied while the status is PENDING makes the document
\* CANCELLING and starts the wait; once the worker has set CANCELLED the waiting
\* client logs the cancellation and returns 0, unless the document is deleted
\* or a second interruption arrives first.
C3_CancelWhilePendingCompletes ==
    /\ [][(op' = "update" /\ store.present /\ store.status = "pending")
            => (store'.status = "cancelling" /\ reply' = "doc")]_vars
    /\ [][op' = "update_return" => (result' = reply /\ pc' = "updated")]_vars
    /\ [][(op' = "branch" /\ result = "doc") => pc' = "cancel_sleep"]_vars
    /\ [][(op' = "cancel_status" /\ how' = "CANCELLED")
            => (out' = <<LineCancelledJobs>> /\ pc' = "return")]_vars
    /\ [][(pc = "return" /\ op' = "exit") => exit' = <<0>>]_vars
    /\ (pc = "cancel_sleep" /\ store.present /\ store.status = "cancelled")
          ~> \/ (pc = "done" /\ how = "CANCELLED" /\ exit = <<0>>)
             \/ ~store.present
             \/ interrupts >= 2

\* Interrupted while PENDING, update matched, worker acknowledged, client ended 0.
C3_Witness ==
    /\ pc = "done" /\ how = "CANCELLED" /\ exit = <<0>>
    /\ observed = "CANCELLED"
    /\ interrupts = 1 /\ interrupt_status = "pending"
    /\ client_writes = << <<"pending", "cancelling">> >>
    /\ store.present /\ store.status = "cancelled"

\* C4: a run whose conditional update matched no document has logged that the job
\* already started and has ended with exit code 0.
C4_NoMatchReportsAndExitsZero ==
    (pc = "done" /\ updates = 1 /\ client_writes = <<>>)
        => (how = "already_started" /\ exit = <<0>>)

\* C5: a run in which a poll, of either loop, found no document has ended on that,
\* with the disappearance logged and a non-zero exit code.
C5_DisappearanceEndsRun ==
    (pc = "done" /\ observed = "disappeared")
        => (how = "disappeared" /\ diagnostics = 1 /\ Len(exit) = 1 /\ exit[1] # 0)

\* C6: in either loop, the examination of a polled status string outside the six
\* states logs the unknown status and sets the run to end with a non-zero code.
C6_UnknownStatusReported ==
    [][(/\ op' \in {"status", "cancel_status"}
        /\ doc.present /\ from_str(doc.status) = KeyError)
         => /\ LineUnknown \in Range(out')
            /\ how' = "unknown"
            /\ pc' \in {"return_error", "handler_return_error"}]_vars

\* C7: a run that ended on an observed DONE, FAILED or CANCELLED has exit code 0;
\* a run that ended on a disappeared document or an unknown status, or after a
\* poll found one, has not.
C7_ExitCodeByOutcome ==
    pc = "done" =>
        /\ how \in Terminal => exit = <<0>>
        /\ (how \in {"disappeared", "unknown"} \/ observed \in {"disappeared", "unknown"})
              => (Len(exit) = 1 /\ exit[1] # 0)

\* C8: a monitoring iteration that reads PENDING, RUNNING or CANCELLING goes back
\* to the sleep, whatever the number of polls before it; once the document shows
\* a terminal status the monitoring client terminates, unless it is interrupted
\* or the document is deleted first.
C8_MonitorRunsUntilTerminal ==
    /\ [][(op' = "status" /\ from_str(doc.status) \in {"PENDING", "RUNNING", "CANCELLING"})
            => (pc' = "sleep" /\ exit' = <<>>)]_vars
    /\ (pc = "sleep" /\ store.present /\ from_str(store.status) \in Terminal)
          ~> (pc = "done" \/ interrupts > 0 \/ ~store.present)

\* The uninterrupted monitor saw FAILED after progress and stopped.
C8_Witness ==
    /\ pc = "done" /\ how = "FAILED" /\ exit = <<0>> /\ interrupts = 0
    /\ store.present /\ last_uncompressed_size > 0

\* C9: a monitoring iteration emits a progress report only if the size its poll
\* read is strictly greater than the size read at the previous poll (0 before the
\* first).
C9_ReportOnlyOnIncrease ==
    [][(op' = "report" /\ LineProgress \in Range(out'))
         => /\ doc.present /\ doc.logs_uncompressed_size = read_size
            /\ read_size > prev_size]_vars

\* A poll read a size below an earlier one and emitted nothing.
C9_Witness ==
    /\ op = "report" /\ pc = "status" /\ out = <<>>
    /\ read_size < prev_size

\* C10 as stated: every monitoring iteration whose poll read a size greater than
\* the size read at the previous poll emits a report.
C10_ReportOnIncreaseOverPreviousPoll ==
    [][(op' = "report" /\ doc.present /\ doc.logs_uncompressed_size > prev_size)
         => LineProgress \in Range(out')]_vars

\* C10 amended: every monitoring iteration whose poll read a size greater than
\* the largest size read at any earlier poll (0 before the first) emits a report
\* and then stores the size just read, unless an interruption comes first.
C10_ReportOnNewMaximum ==
    /\ [][(op' = "report" /\ doc.present /\ doc.logs_uncompressed_size > max_size)
            => (LineProgress \in Range(out') /\ pc' = "assign_last")]_vars
    /\ [][pc = "assign_last"
            => \/ op' \in {"none", "interrupt"}
               \/ (op' = "assign" /\ last_uncompressed_size' = doc.logs_uncompressed_size
                     /\ last_uncompressed_size' = read_size)]_vars

\* After a report and a lower read, an iteration reported and stored a new maximum.
C10_Witness ==
    /\ op = "assign" /\ last_uncompressed_size = read_size
    /\ read_size > max_size /\ prev_size < max_size

\* C11: a monitoring iteration that reads DONE with end_timestamp > begin_timestamp
\* (millisecond integers) reports a speed equal to the logs_uncompressed_size of
\* the document read divided by (end_timestamp - begin_timestamp) / 1000 seconds.
C11_SpeedIsDocumentSizeOverRuntime ==
    [][(/\ op' = "status" /\ from_str(doc.status) = "DONE"
        /\ doc.end_timestamp[1] > doc.begin_timestamp[1])
         => /\ Len(speed') = 2
            /\ speed'[1] * (doc.end_timestamp[1] - doc.begin_timestamp[1])
                 = doc.logs_uncompressed_size * 1000 * speed'[2]]_vars

\* C12: every monitoring iteration that reads DONE goes on to the
\* runtime-and-speed report, which goes on to the warning when errors is set,
\* else to the break.
C12_DoneAlwaysReportsAndSucceeds ==
    [][/\ (op' = "status" /\ from_str(doc.status) = "DONE")
            => (pc' = "log_finished" /\ exit' = <<>>)
       /\ (pc = "log_finished" /\ op' = "log")
            => /\ LineFinished \in Range(out')
               /\ pc' = (IF doc.errors THEN "log_errors" ELSE "break")]_vars

\* C13: a client whose conditional update succeeded and that is interrupted a
\* second time during the cancellation wait still ends as a normal return of
\* main(), not by the interruption leaving main() unhandled.
C13_SecondInterruptExitsCleanly ==
    (pc = "done" /\ interrupts = 2 /\ client_writes # <<>>)
        => (how # "interrupted" /\ exit \in {<<0>>, <<-1>>})

\* C14: a run that ended after a poll, of either loop, found the document gone or
\* its status undecodable has logged exactly one diagnostic line.
C14_OneDiagnosticPerFatalCondition ==
    (pc = "done" /\ observed \in {"disappeared", "unknown"}) => diagnostics = 1

\* C15: a run creates at most one record; the insert_one that takes effect is the
\* first of the run and leaves a document with status PENDING, errors false and
\* both size counters 0; a run that is past the submission has created exactly one.
C15_ExactlyOneRecordCreated ==
    /\ [](creates <= 1)
    /\ [][op' = "insert"
            => /\ creates = 0 /\ creates' = 1
               /\ store'.present
               /\ from_str(store'.status) = "PENDING"
               /\ store'.errors = FALSE
               /\ store'.logs_uncompressed_size = 0
               /\ store'.logs_compressed_size = 0]_vars
    /\ []((pc = "inserted" \/ job_id # <<>>) => creates = 1)
    /\ [][(pc = "submit" /\ op' \notin {"none", "interrupt"}) => creates' = 1]_vars

\* The submission has returned and the one record is in the store.
C15_Witness ==
    /\ op = "insert_return" /\ pc = "log_submitted" /\ job_id = <<1>> /\ creates = 1
    /\ store.present /\ store.status = "pending"

\* The fields only the worker writes.
WorkerOwned(d) ==
    <<d.logs_uncompressed_size, d.logs_compressed_size, d.begin_timestamp,
      d.end_timestamp, d.errors>>

\* C16: no client step other than the creation changes the size counters, the
\* timestamps or the errors flag of the document, or removes it; the conditional
\* update leaves the document as it is or changes its status alone.
C16_ClientLeavesWorkerFields ==
    [][/\ op' \notin {"none", "insert"}
            => /\ WorkerOwned(store') = WorkerOwned(store)
               /\ store'.present = store.present
       /\ op' = "update"
            => store' \in {store, [store EXCEPT !.status = "cancelling"]}
      ]_vars

\* The conditional update has just matched.
C16_Witness ==
    /\ op = "update" /\ reply = "doc" /\ store.status = "cancelling"
    /\ WorkerOwned(store) = WorkerOwned(Entry)

\* The argument combinations C17 names: a tuning parameter that is zero or
\* negative, or explicit paths together with an input list.
RejectedCombination(a) ==
    \/ \E o \in TargetSizeAttributes : a.targets[o] # <<>> /\ a.targets[o][1] <= 0
    \/ a.paths > 0 /\ a.input_list

\* C17: with a zero or negative tuning parameter, or with both paths and an input
\* list, the validation ends the run as a usage error, and a run of such arguments
\* or one that ended so has called insert_one never and left no record.
C17_InvalidArgsCreateNothing ==
    /\ [][(pc = "args" /\ RejectedCombination(args) /\ op' = "parse")
            => (pc' = "usage_exit" /\ how' = "usage")]_vars
    /\ [][pc = "usage_exit" => (pc' = "done" \/ op' = "none")]_vars
    /\ []((RejectedCombination(args) \/ how = "usage")
            => (creates = 0 /\ ~store.present))

\* A run rejected for a target size of zero.
C17_Witness ==
    /\ pc = "done" /\ how = "usage" /\ exit = <<2>>
    /\ args.targets["target_segment_size"] = <<0>>
    /\ args.paths = 1 /\ ~args.input_list
    /\ creates = 0

\* C18: a run that ended after one interruption, delivered while the created
\* record was PENDING, has issued exactly one conditional update.
C18_InterruptAlwaysAttemptsCancel ==
    (pc = "done" /\ interrupts = 1 /\ interrupt_status = "pending")
        => updates = 1

\* C19: in the cancellation wait an iteration whose poll read DONE, FAILED or
\* CANCELLED ends the wait with a reported outcome.
C19_CancelWaitEndsOnTerminal ==
    [][(op' = "cancel_status" /\ doc.present /\ from_str(doc.status) \in Terminal)
         => (pc' # "cancel_sleep" /\ out' # <<>>)]_vars

\* C20 as stated: in every reachable state the last-seen size is the largest size
\* any poll has read.
C20_LastIsMaxReadInEveryState ==
    last_uncompressed_size = Max(max_size, read_size)

\* C20 amended: the last-seen size is never negative and, whenever the client is
\* about to poll, is the largest size any poll has read; an iteration that emits
\* a progress report has read a positive size.
C20_RatioDivisorPositive ==
    /\ [](last_uncompressed_size >= 0)
    /\ [](pc = "sleep" => last_uncompressed_size = Max(max_size, read_size))
    /\ []((pc = "polled" /\ doc.present) => last_uncompressed_size = max_size)
    /\ [][(LineProgress \in Range(out')) => doc.logs_uncompressed_size > 0]_vars

\* A zero size was read after a positive one and nothing was reported.
C20_Witness ==
    /\ op = "report" /\ pc = "status" /\ out = <<>>
    /\ read_size = 0 /\ max_size > 0
====
